---- MODULE Spec2Model ----
(***************************************************************************)
(* Model of the renderer-side CatalogEntityRegistry of lens.               *)
(*                                                                         *)
(* The registry keeps an observable array of catalog entities (_items) and *)
(* a reference to the active entity (_activeEntity).  init() subscribes a  *)
(* handler to the "catalog:items" channel and broadcasts a request on      *)
(* "catalog:broadcast"; every delivered snapshot is handed to updateItems, *)
(* which maps each raw record through the category registry and replaces   *)
(* _items.  getById, getItemsForApiKind and getItemsForCategory query the  *)
(* array.                                                                  *)
(*                                                                         *)
(* Three specifications share the variables and the operators:             *)
(*   Spec      the registry together with the two channels, every method   *)
(*             one atomic step (JavaScript runs a handler to completion),  *)
(*             over a few chosen snapshots;                                *)
(*   SpecApi   updateItems and the query methods called directly, over     *)
(*             every snapshot of up to MaxLen records;                     *)
(*   SpecSteps updateItems unfolded into one step per record of the        *)
(*             snapshot, with readers allowed between the steps.           *)
(***************************************************************************)
EXTENDS Integers, Sequences, FiniteSets, TLC

\* ------------------------------------------------------------------ bounds
MaxLen == 2      \* longest snapshot (number of raw records)
MaxQueue == 2    \* snapshots in flight on "catalog:items"
MaxInit == 1     \* number of init() calls

\* --------------------------------------------------------------- universes
Undefined == [undefined |-> TRUE]

Record(av, k, u) == [apiVersion |-> av, kind |-> k, metadata |-> [uid |-> u]]

\* Kinds whose entity constructor throws, and kinds that have a typed class;
\* every other kind resolves to the generic fallback entity.
ThrowingKinds == {"Broken"}
RegisteredKinds == {"Cluster"}

\* Raw records of the synchronisation scenario: two that resolve and one
\* that does not.
SyncRecords ==
  { Record("g/v1", "Cluster", "a"),
    Record("g/v2", "Cluster", "b"),
    Record("g/v1", "Broken", "c") }

\* Raw records of the method scenario: duplicate uids, two groups, two
\* versions, two resolvable kinds, a record without the "/" separator and a
\* record that does not resolve.
ApiRecords ==
  { Record("g/v1", "Broken", "d"),
    Record("g/v1", "Cluster", "a"),
    Record("g/v2", "Cluster", "a"),
    Record("h/v1", "Cluster", "b"),
    Record("g/v1", "Pod", "b"),
    Record("gv1", "Cluster", "c") }

SeqsUpTo(S, n) == UNION { [1..k -> S] : k \in 0..n }

StepSnapshots == SeqsUpTo(SyncRecords, MaxLen)

\* Snapshots of the synchronisation scenario: an empty catalog, one entity,
\* two entities, and a catalog whose second record does not resolve.
SyncSnapshots ==
  { <<>>,
    <<Record("g/v1", "Cluster", "a")>>,
    <<Record("g/v2", "Cluster", "b"), Record("g/v1", "Cluster", "a")>>,
    <<Record("g/v1", "Cluster", "a"), Record("g/v1", "Broken", "c")>> }
ApiSnapshots == SeqsUpTo(ApiRecords, MaxLen)

Ids == {"a", "b", "c", "missing"}
ApiVersions == {"g/v1", "g/v2", "h/v1", "g"}
Kinds == {"Cluster", "Pod", "cluster"}

Category(g, vs, k) ==
  [spec |-> [group |-> g, versions |-> vs, names |-> [kind |-> k]]]

Categories ==
  { Category("g", <<[name |-> "v1"], [name |-> "v2"]>>, "Cluster"),
    Category("g", <<[name |-> "v1"]>>, "Cluster"),
    Category("g", <<>>, "Cluster"),
    Category("h", <<[name |-> "v1"]>>, "Cluster"),
    Category("g", <<[name |-> "v1"]>>, "Pod"),
    Category("", <<[name |-> "gv1"]>>, "Cluster") }

\* ------------------------------------------------------- category registry
ResolutionThrows(data) == data.kind \in ThrowingKinds

getEntityForData(data) ==
  [apiVersion |-> data.apiVersion,
   kind |-> data.kind,
   metadata |-> data.metadata,
   typed |-> data.kind \in RegisteredKinds]

\* Entities a consumer can hand to the activeEntity setter.
Entities ==
  { getEntityForData(r) : r \in { d \in SyncRecords : ~ResolutionThrows(d) } }

\* ------------------------------------------------------------------- state
VARIABLES
  items,          \* _items
  activeEntity,   \* _activeEntity
  subscribers,    \* handlers registered on "catalog:items"
  outbox,         \* requests in flight on "catalog:broadcast"
  inbox,          \* snapshots in flight on "catalog:items", oldest first
  inits,          \* history: number of init() calls
  published,      \* history: number of requests ever published
  applied,        \* history: <<S>> for the last snapshot S that replaced _items
  written,        \* history: last value passed to the activeEntity setter
  lastCall,       \* history: the last registry method that ran
  ret,            \* history: what lastCall returned (Undefined for a void method)
  pc,             \* SpecSteps: "idle" or "mapping" (inside items.map)
  arg,            \* SpecSteps: the snapshot being mapped
  acc,            \* SpecSteps: the array items.map has built so far
  pre             \* SpecSteps: _items when the running updateItems began

vars == <<items, activeEntity, subscribers, outbox, inbox, inits, published,
          applied, written, lastCall, ret, pc, arg, acc, pre>>

chan == <<subscribers, outbox, inbox, inits, published>>
frame == <<pc, arg, acc, pre>>

\* A finished call: the method, its argument, whether it threw, and whether
\* it repeats the call before it (updateItems with the same snapshot).
Call(op, a, t) ==
  [op |-> op, arg |-> a, threw |-> t,
   again |-> op = "updateItems" /\ lastCall.op = "updateItems" /\ lastCall.arg = a]

Init ==
  /\ items = <<>>
  /\ activeEntity = Undefined
  /\ subscribers = 0
  /\ outbox = 0
  /\ inbox = <<>>
  /\ inits = 0
  /\ published = 0
  /\ applied = <<>>
  /\ written = Undefined
  /\ lastCall = [op |-> "none", arg |-> <<>>, threw |-> FALSE, again |-> FALSE]
  /\ ret = Undefined
  /\ pc = "idle"
  /\ arg = <<>>
  /\ acc = <<>>
  /\ pre = <<>>

\* -------------------------------------------------------------- updateItems
Throws(S) == \E i \in 1..Len(S) : ResolutionThrows(S[i])

MapRecords(S) == [i \in 1..Len(S) |-> getEntityForData(S[i])]

Reverse(arr) == [i \in 1..Len(arr) |-> arr[Len(arr) + 1 - i]]

\* Faulty variants of updateItems: the mapped array reversed; entities of the
\* old array kept unless the snapshot has their uid; the entities mapped
\* before a throwing record made visible; the mapped array appended.
updateItemsReversed(old, S) ==
  IF Throws(S) THEN old ELSE Reverse(MapRecords(S))

updateItemsMerge(old, S) ==
  IF Throws(S) THEN old
  ELSE SelectSeq(old, LAMBDA e :
         \A i \in 1..Len(S) : S[i].metadata.uid # e.metadata.uid)
       \o MapRecords(S)

updateItemsPartial(old, S) ==
  IF Throws(S)
    THEN LET first == CHOOSE i \in 1..Len(S) :
                        /\ ResolutionThrows(S[i])
                        /\ \A j \in 1..(i - 1) : ~ResolutionThrows(S[j])
         IN  MapRecords(SubSeq(S, 1, first - 1))
    ELSE MapRecords(S)

updateItemsAppend(old, S) ==
  IF Throws(S) THEN old ELSE old \o MapRecords(S)

\* The value of _items after updateItems(S) ran on the array old: items.map
\* either throws, before the assignment, or yields the whole mapped array.
updateItems(old, S) == IF Throws(S) THEN old ELSE MapRecords(S)

\* The handlers subscribed to "catalog:items" each call updateItems(S).
RECURSIVE Dispatch(_, _, _)
Dispatch(old, S, n) ==
  IF n = 0 THEN old ELSE Dispatch(updateItems(old, S), S, n - 1)

Applied(S) == IF Throws(S) THEN applied ELSE <<S>>

\* Faulty variant: init also empties _items.
initResetting ==
  /\ pc = "idle"
  /\ inits < MaxInit
  /\ subscribers' = subscribers + 1
  /\ outbox' = outbox + 1
  /\ published' = published + 1
  /\ inits' = inits + 1
  /\ lastCall' = Call("init", <<>>, FALSE)
  /\ ret' = Undefined
  /\ items' = <<>>
  /\ UNCHANGED <<activeEntity, inbox, applied, written, frame>>

\* init(): subscribeToBroadcast("catalog:items", ...); broadcastMessage(...)
init ==
  /\ pc = "idle"
  /\ inits < MaxInit
  /\ subscribers' = subscribers + 1
  /\ outbox' = outbox + 1
  /\ published' = published + 1
  /\ inits' = inits + 1
  /\ lastCall' = Call("init", <<>>, FALSE)
  /\ ret' = Undefined
  /\ UNCHANGED <<items, activeEntity, inbox, applied, written, frame>>

\* Faulty variant: the active entity is cleared when the new array lacks it.
CallUpdateItemsClearing(S) ==
  /\ pc = "idle"
  /\ items' = updateItems(items, S)
  /\ applied' = Applied(S)
  /\ lastCall' = Call("updateItems", S, Throws(S))
  /\ ret' = Undefined
  /\ activeEntity' =
       IF \E i \in 1..Len(items') : items'[i] = activeEntity
         THEN activeEntity ELSE Undefined
  /\ UNCHANGED <<chan, written, frame>>

\* A consumer calls updateItems(S) directly.
CallUpdateItems(S) ==
  /\ pc = "idle"
  /\ items' = updateItems(items, S)
  /\ applied' = Applied(S)
  /\ lastCall' = Call("updateItems", S, Throws(S))
  /\ ret' = Undefined
  /\ UNCHANGED <<activeEntity, chan, written, frame>>

\* Faulty variant: an empty snapshot makes the handler request another one.
OnCatalogItemsRetry ==
  /\ pc = "idle"
  /\ inbox # <<>>
  /\ inbox' = Tail(inbox)
  /\ IF subscribers = 0
       THEN UNCHANGED <<items, applied, lastCall, ret, outbox, published>>
       ELSE /\ items' = Dispatch(items, Head(inbox), subscribers)
            /\ applied' = Applied(Head(inbox))
            /\ lastCall' = Call("updateItems", Head(inbox), Throws(Head(inbox)))
            /\ ret' = Undefined
            /\ IF Head(inbox) = <<>>
                 THEN outbox' = outbox + 1 /\ published' = published + 1
                 ELSE UNCHANGED <<outbox, published>>
  /\ UNCHANGED <<activeEntity, subscribers, inits, written, frame>>

\* The head of "catalog:items" is delivered: every subscribed handler runs
\* updateItems on it; without a subscriber the message is lost.
OnCatalogItems ==
  /\ pc = "idle"
  /\ inbox # <<>>
  /\ inbox' = Tail(inbox)
  /\ IF subscribers = 0
       THEN UNCHANGED <<items, applied, lastCall, ret>>
       ELSE /\ items' = Dispatch(items, Head(inbox), subscribers)
            /\ applied' = Applied(Head(inbox))
            /\ lastCall' = Call("updateItems", Head(inbox), Throws(Head(inbox)))
            /\ ret' = Undefined
  /\ UNCHANGED <<activeEntity, subscribers, outbox, inits, published,
                 written, frame>>

\* set activeEntity(entity)
SetActiveEntity(entity) ==
  /\ pc = "idle"
  /\ activeEntity' = entity
  /\ written' = entity
  /\ lastCall' = Call("setActiveEntity", <<>>, FALSE)
  /\ ret' = Undefined
  /\ UNCHANGED <<items, chan, applied, frame>>

\* get activeEntity()
GetActiveEntity ==
  /\ ret' = activeEntity
  /\ lastCall' = Call("activeEntity", <<>>, FALSE)
  /\ UNCHANGED <<items, activeEntity, chan, applied, written, frame>>

\* get items()
GetItems ==
  /\ ret' = items
  /\ lastCall' = Call("items", <<>>, FALSE)
  /\ UNCHANGED <<items, activeEntity, chan, applied, written, frame>>

\* ----------------------------------------------------------------- queries
\* Array.prototype.find from index i: the first element with the uid, or
\* undefined.
RECURSIVE find(_, _, _)
find(arr, id, i) ==
  IF i > Len(arr) THEN Undefined
  ELSE IF arr[i].metadata.uid = id THEN arr[i]
  ELSE find(arr, id, i + 1)

\* Faulty variant: the last element with the uid.
getByIdLast(arr, id) ==
  LET r == find(Reverse(arr), id, 1) IN r

getById(arr, id) == find(arr, id, 1)

\* Faulty variant: either field matching is enough.
getItemsForApiKindEither(arr, apiVersion, kind) ==
  SelectSeq(arr, LAMBDA item : item.apiVersion = apiVersion \/ item.kind = kind)

getItemsForApiKind(arr, apiVersion, kind) ==
  SelectSeq(arr, LAMBDA item : item.apiVersion = apiVersion /\ item.kind = kind)

\* Faulty variant: group and version name joined without the separator.
supportedVersionsNoSeparator(category) ==
  [j \in 1..Len(category.spec.versions) |->
     category.spec.group \o category.spec.versions[j].name]

\* category.spec.versions.map(v => `${category.spec.group}/${v.name}`)
supportedVersions(category) ==
  [j \in 1..Len(category.spec.versions) |->
     category.spec.group \o "/" \o category.spec.versions[j].name]

\* Array.prototype.includes
includes(arr, x) == \E j \in 1..Len(arr) : arr[j] = x

getItemsForCategory(arr, category) ==
  SelectSeq(arr, LAMBDA item :
    /\ includes(supportedVersions(category), item.apiVersion)
    /\ item.kind = category.spec.names.kind)

GetById(id) ==
  /\ ret' = getById(items, id)
  /\ lastCall' = Call("getById", id, FALSE)
  /\ UNCHANGED <<items, activeEntity, chan, applied, written, frame>>

GetItemsForApiKind(apiVersion, kind) ==
  /\ ret' = getItemsForApiKind(items, apiVersion, kind)
  /\ lastCall' = Call("getItemsForApiKind", <<apiVersion, kind>>, FALSE)
  /\ UNCHANGED <<items, activeEntity, chan, applied, written, frame>>

GetItemsForCategory(category) ==
  /\ ret' = getItemsForCategory(items, category)
  /\ lastCall' = Call("getItemsForCategory", category, FALSE)
  /\ UNCHANGED <<items, activeEntity, chan, applied, written, frame>>

\* ------------------------------------------------------------ main process
\* The main process answers a pending request with a snapshot.
AnswerRequest(S) ==
  /\ outbox > 0
  /\ Len(inbox) < MaxQueue
  /\ outbox' = outbox - 1
  /\ inbox' = Append(inbox, S)
  /\ UNCHANGED <<items, activeEntity, subscribers, inits, published, applied,
                 written, lastCall, ret, frame>>

\* The request is lost before anyone answers it.
DropRequest ==
  /\ outbox > 0
  /\ outbox' = outbox - 1
  /\ UNCHANGED <<items, activeEntity, subscribers, inbox, inits, published,
                 applied, written, lastCall, ret, frame>>

\* The main process pushes a snapshot because its entity set changed.
PushSnapshot(S) ==
  /\ Len(inbox) < MaxQueue
  /\ inbox' = Append(inbox, S)
  /\ UNCHANGED <<items, activeEntity, subscribers, outbox, inits, published,
                 applied, written, lastCall, ret, frame>>

Next ==
  \/ init
  \/ \E S \in SyncSnapshots : CallUpdateItems(S)
  \/ OnCatalogItems
  \/ \E e \in Entities : SetActiveEntity(e)
  \/ GetActiveEntity
  \/ GetItems
  \/ \E id \in Ids : GetById(id)
  \/ \E av \in ApiVersions, k \in Kinds : GetItemsForApiKind(av, k)
  \/ \E c \in Categories : GetItemsForCategory(c)
  \/ \E S \in SyncSnapshots : AnswerRequest(S)
  \/ DropRequest
  \/ \E S \in SyncSnapshots : PushSnapshot(S)

Spec == Init /\ [][Next]_vars

\* ------------------------------------------- the registry through its API
NextApi ==
  \/ \E S \in ApiSnapshots : CallUpdateItems(S)
  \/ \E id \in Ids : GetById(id)
  \/ \E av \in ApiVersions, k \in Kinds : GetItemsForApiKind(av, k)
  \/ \E c \in Categories : GetItemsForCategory(c)

SpecApi == Init /\ [][NextApi]_vars

\* ------------------------------------------- updateItems, record by record
\* updateItems(S) is entered: items.map starts with an empty result array.
BeginUpdateItems(S) ==
  /\ pc = "idle"
  /\ pc' = "mapping"
  /\ arg' = S
  /\ acc' = <<>>
  /\ pre' = items
  /\ lastCall' = [op |-> "enter", arg |-> S, threw |-> FALSE, again |-> FALSE]
  /\ ret' = Undefined
  /\ UNCHANGED <<items, activeEntity, chan, applied, written>>

\* Faulty variant: every mapped entity is pushed onto _items at once.
MapRecordInPlace ==
  /\ pc = "mapping"
  /\ Len(acc) < Len(arg)
  /\ LET data == arg[Len(acc) + 1] IN
       IF ResolutionThrows(data)
         THEN /\ pc' = "idle"
              /\ arg' = <<>>
              /\ acc' = <<>>
              /\ pre' = <<>>
              /\ lastCall' = Call("updateItems", arg, TRUE)
              /\ ret' = Undefined
              /\ UNCHANGED items
         ELSE /\ acc' = Append(acc, getEntityForData(data))
              /\ items' = acc'
              /\ UNCHANGED <<pc, arg, pre, lastCall, ret>>
  /\ UNCHANGED <<activeEntity, chan, applied, written>>

\* items.map calls getEntityForData on the next record: the entity is added
\* to the result array, or the exception leaves updateItems.
MapRecord ==
  /\ pc = "mapping"
  /\ Len(acc) < Len(arg)
  /\ LET data == arg[Len(acc) + 1] IN
       IF ResolutionThrows(data)
         THEN /\ pc' = "idle"
              /\ arg' = <<>>
              /\ acc' = <<>>
              /\ pre' = <<>>
              /\ lastCall' = Call("updateItems", arg, TRUE)
              /\ ret' = Undefined
              /\ UNCHANGED items
         ELSE /\ acc' = Append(acc, getEntityForData(data))
              /\ UNCHANGED <<items, pc, arg, pre, lastCall, ret>>
  /\ UNCHANGED <<activeEntity, chan, applied, written>>

\* this._items = <the array items.map returned>
AssignItems ==
  /\ pc = "mapping"
  /\ Len(acc) = Len(arg)
  /\ items' = acc
  /\ applied' = <<arg>>
  /\ pc' = "idle"
  /\ arg' = <<>>
  /\ acc' = <<>>
  /\ pre' = <<>>
  /\ lastCall' = Call("updateItems", arg, FALSE)
  /\ ret' = Undefined
  /\ UNCHANGED <<activeEntity, chan, written>>

NextSteps ==
  \/ \E S \in StepSnapshots : BeginUpdateItems(S)
  \/ MapRecord
  \/ AssignItems
  \/ GetItems
  \/ \E id \in Ids : GetById(id)
  \/ \E av \in ApiVersions, k \in Kinds : GetItemsForApiKind(av, k)
  \/ \E c \in Categories : GetItemsForCategory(c)

SpecSteps == Init /\ [][NextSteps]_vars

\* ------------------------------------------------------------- properties
SameIdentity(entity, data) ==
  /\ entity.apiVersion = data.apiVersion
  /\ entity.kind = data.kind
  /\ entity.metadata.uid = data.metadata.uid

Resolvable(S) == \A i \in 1..Len(S) : ~ResolutionThrows(S[i])

\* The elements of arr at the indices in M, in ascending index order.
Nth(M, n) == CHOOSE i \in M : Cardinality({ j \in M : j < i }) = n - 1
Pick(arr, M) == [n \in 1..Cardinality(M) |-> arr[Nth(M, n)]]

\* C1: after updateItems(S) on a snapshot whose records all resolve, items
\* has Len(S) elements and items[i] carries the apiVersion, kind and uid of
\* S[i], for every i: order kept, nothing dropped, merged or added.
C1_SnapshotImage ==
  (lastCall.op = "updateItems" /\ Resolvable(lastCall.arg)) =>
    /\ Len(items) = Len(lastCall.arg)
    /\ \A i \in 1..Len(lastCall.arg) : SameIdentity(items[i], lastCall.arg[i])

C1_Witness ==
  /\ lastCall.op = "updateItems"
  /\ Resolvable(lastCall.arg)
  /\ Len(lastCall.arg) = 2
  /\ lastCall.arg[1] # lastCall.arg[2]
  /\ Len(items) = 2

\* C2: items is always the resolved image of the snapshot applied last and
\* of nothing else, it is empty while no snapshot has been applied, and a
\* delivery applies the oldest snapshot in flight.
C2_LatestSnapshotOnly ==
  /\ [](items = IF applied = <<>> THEN <<>> ELSE MapRecords(applied[1]))
  /\ [][(Len(inbox') < Len(inbox) /\ subscribers > 0 /\ Resolvable(Head(inbox)))
          => (applied' = <<Head(inbox)>> /\ inbox' = Tail(inbox))]_vars

C2_Witness ==
  /\ applied # <<>>
  /\ Len(applied[1]) = 1
  /\ lastCall.op = "updateItems"
  /\ lastCall.again = FALSE
  /\ lastCall.arg = applied[1]
  /\ inits = 1
  /\ Len(items) = 1

\* C3: getById(x) returns the entity at the lowest index of items whose uid
\* is x, and undefined exactly when no entity of items has that uid.
C3_GetByIdFirstMatch ==
  lastCall.op = "getById" =>
    LET x == lastCall.arg
        M == { i \in 1..Len(items) : items[i].metadata.uid = x }
    IN  IF M = {}
          THEN ret = Undefined
          ELSE /\ ret # Undefined
               /\ ret.metadata.uid = x
               /\ ret = items[CHOOSE i \in M : \A j \in M : i <= j]

C3_Witness ==
  /\ lastCall.op = "getById"
  /\ Len(items) = 2
  /\ items[1] # items[2]
  /\ items[1].metadata.uid = lastCall.arg
  /\ items[2].metadata.uid = lastCall.arg
  /\ ret = items[1]

\* C4: getItemsForCategory(c) returns, in items order, exactly the entities
\* whose kind is c.spec.names.kind and whose apiVersion is group "/" name for
\* a version declared on c; a category without versions yields nothing.
C4_CategoryFilter ==
  lastCall.op = "getItemsForCategory" =>
    LET c == lastCall.arg
        accepted == { c.spec.group \o "/" \o c.spec.versions[j].name :
                        j \in 1..Len(c.spec.versions) }
        M == { i \in 1..Len(items) :
                 /\ items[i].kind = c.spec.names.kind
                 /\ items[i].apiVersion \in accepted }
    IN  /\ ret = Pick(items, M)
        /\ c.spec.versions = <<>> => ret = <<>>
        /\ c = Category("g", <<[name |-> "v1"], [name |-> "v2"]>>, "Cluster")
             => accepted = {"g/v1", "g/v2"}

C4_Witness ==
  /\ lastCall.op = "getItemsForCategory"
  /\ Len(lastCall.arg.spec.versions) = 1
  /\ Len(items) = 2
  /\ Len(ret) = 1
  /\ ret[1] = items[2]
  /\ items[1].kind = lastCall.arg.spec.names.kind

\* C5: getItemsForApiKind(av, k) returns, in items order, exactly the
\* entities whose apiVersion equals av and whose kind equals k.
C5_ApiKindFilter ==
  lastCall.op = "getItemsForApiKind" =>
    LET av == lastCall.arg[1]
        k == lastCall.arg[2]
        M == { i \in 1..Len(items) :
                 items[i].apiVersion = av /\ items[i].kind = k }
    IN  ret = Pick(items, M)

C5_Witness ==
  /\ lastCall.op = "getItemsForApiKind"
  /\ Len(items) = 2
  /\ Len(ret) = 1
  /\ ret[1] = items[2]
  /\ items[1].apiVersion = lastCall.arg[1]

\* C6: the active entity is always the value written last through the
\* setter (undefined before any write), member of items or not, and the
\* getter returns it; no update clears or re-points it.
C6_ActiveEntityKept ==
  /\ activeEntity = written
  /\ lastCall.op = "activeEntity" => ret = written

C6_Witness ==
  /\ lastCall.op = "activeEntity"
  /\ ret \in Entities
  /\ applied # <<>>
  /\ items # <<>>
  /\ \A i \in 1..Len(items) : items[i] # ret

\* C7: an updateItems call on a snapshot with a record whose resolution
\* throws, at any position, throws and leaves items as it was before the call.
C7_ThrowKeepsItems ==
  [][(lastCall'.op = "updateItems" /\ ~Resolvable(lastCall'.arg))
       => (lastCall'.threw /\ items' = items)]_vars

C7_Witness ==
  /\ lastCall.op = "updateItems"
  /\ lastCall.threw
  /\ Len(lastCall.arg) = 2
  /\ ~ResolutionThrows(lastCall.arg[1])
  /\ ResolutionThrows(lastCall.arg[2])
  /\ Len(items) = 2

\* C8: every init registers one handler and publishes one request, and
\* nothing else ever publishes a request, whatever happens to the request
\* and however many snapshots are delivered.
C8_OneRequestPerInit ==
  /\ [](published = inits /\ subscribers = inits /\ outbox <= published)
  /\ [][published' # published
          => (lastCall'.op = "init" /\ published' = published + 1)]_vars

C8_Witness ==
  /\ inits = 1
  /\ published = 1
  /\ outbox = 0
  /\ inbox = <<>>
  /\ lastCall.op = "updateItems"
  /\ lastCall.arg = <<>>

\* C9: updateItems(S) called again right after updateItems(S) leaves items
\* exactly as the first call left it.
C9_Idempotent ==
  [][(lastCall.op = "updateItems" /\ lastCall'.op = "updateItems"
        /\ lastCall'.arg = lastCall.arg)
       => items' = items]_vars

C9_Witness ==
  /\ lastCall.op = "updateItems"
  /\ lastCall.again
  /\ Len(items) = 2
  /\ items[1] # items[2]

\* C10: while updateItems maps the records one by one, items stays the
\* array it was before the call and a reader gets that array; items changes
\* only in the final assignment, to the image of the whole snapshot.
C10_AtomicReplace ==
  [][/\ pc = "mapping" => items = pre
     /\ (pc' = "mapping" /\ lastCall'.op = "items") => ret' = pre'
     /\ items' # items =>
          (pc = "mapping" /\ pc' = "idle" /\ items' = MapRecords(arg))]_vars

C10_Witness ==
  /\ pc = "mapping"
  /\ Len(arg) = 2
  /\ Len(acc) = 1
  /\ Len(pre) = 2
  /\ lastCall.op = "items"
  /\ ret = pre
  /\ acc[1] # pre[1]

\* C11: items changes only in a step of updateItems (called directly or by
\* the "catalog:items" handler) and activeEntity only in a step of its
\* setter: init, the two getters and the three queries leave both as they
\* are, the setter leaves items and updateItems leaves activeEntity.
ReadOnlyOps ==
  {"init", "items", "activeEntity", "getById", "getItemsForApiKind",
   "getItemsForCategory"}

C11_FrameEffect ==
  [][/\ items' # items => lastCall'.op = "updateItems"
     /\ activeEntity' # activeEntity => lastCall'.op = "setActiveEntity"
     /\ lastCall'.op \in ReadOnlyOps
          => (items' = items /\ activeEntity' = activeEntity)]_vars

C11_Witness ==
  /\ lastCall.op = "init"
  /\ items # <<>>
  /\ activeEntity # Undefined

TypeOK ==
  /\ Len(items) <= MaxLen
  /\ subscribers \in 0..MaxInit
  /\ Len(inbox) <= MaxQueue
  /\ pc \in {"idle", "mapping"}
====
